---------------------------- MODULE Spec2Model ----------------------------
(***************************************************************************)
(* Model of protoc-gen-mock's stub matching engine (stub/model.go) and of  *)
(* the REST controller that manages stubs (restcontrollers).               *)
(*                                                                         *)
(* Three state machines share the variables below:                         *)
(*   Spec      - JsonString.Matches / JsonString.Equals on a pair of       *)
(*               documents (the comparator jsonStringMatches);             *)
(*   SpecJson  - JsonString.UnmarshalJSON / JsonString.MarshalJSON on      *)
(*               JSON text;                                                *)
(*   SpecStubs - the handlers of StubsController over a stub store.        *)
(*                                                                         *)
(* A Go panic is an outcome of its own ("panic"), never a verdict.  The    *)
(* iteration order of a Go map is unspecified, so an operator over a map   *)
(* yields the SET of outcomes some iteration order can produce.            *)
(***************************************************************************)
EXTENDS Integers, Sequences, FiniteSets, TLC

VARIABLES
    pattern,     \* Spec: the receiver document (*j) of Matches / Equals
    target,      \* Spec: the argument document (other)
    op,          \* the operation that ran last ("none" after construction)
    verdict,     \* the outcome of the operation that ran last
    data,        \* SpecJson: the text last given to UnmarshalJSON
    j,           \* SpecJson: the JsonString value (its text)
    out,         \* SpecJson: the bytes MarshalJSON returned last
    err,         \* SpecJson: the error MarshalJSON returned last
    store,       \* SpecStubs: the stubs held by StubsStore
    request,     \* SpecStubs: the request handled last
    responses,   \* SpecStubs: status codes written to the ResponseWriter
    storeCalls   \* SpecStubs: mutating StubsStore calls made by the handler

vars == <<pattern, target, op, verdict, data, j, out, err,
          store, request, responses, storeCalls>>

-----------------------------------------------------------------------------
(* Bounds *)

MaxLen == 2        \* longest JSON array in a document
MaxText == 3       \* longest JSON text (in characters) given to UnmarshalJSON

-----------------------------------------------------------------------------
(* JSON values as encoding/json decodes them into interface{}: every value *)
(* carries its dynamic type T, spelled as fmt.Sprintf("%T", value) prints  *)
(* it.                                                                     *)

TMap == "map[string]interface {}"
TSlice == "[]interface {}"

Num(n) == [T |-> "float64", v |-> n]
Str(s) == [T |-> "string", v |-> s]
Bool(b) == [T |-> "bool", v |-> b]
Null == [T |-> "<nil>", v |-> "null"]
Obj(m) == [T |-> TMap, m |-> m]
Arr(s) == [T |-> TSlice, s |-> s]

EmptyMap == [k \in {} |-> Null]

Keys == {"k", "x"}

Scalars == {Num("1"), Num("2"), Str("1"), Bool("true"), Null}

\* Objects nested inside a document: maps over Keys with scalar values.
NestedObjects ==
    { Obj(EmptyMap),
      Obj([k \in {"k"} |-> Num("1")]),
      Obj([k \in {"k"} |-> Num("2")]),
      Obj([k \in {"k", "x"} |-> IF k = "k" THEN Num("1") ELSE Bool("true")]) }

\* What an array of a document may hold: scalars, objects, a nested array.
Elems ==
    { Num("1"), Num("2"),
      Obj([k \in {"k"} |-> Num("1")]),
      Obj([k \in {"k", "x"} |-> IF k = "k" THEN Num("1") ELSE Bool("true")]),
      Arr(<<>>) }

SeqsUpTo(S, n) == UNION { [1..m -> S] : m \in 0..n }

Arrays == { Arr(s) : s \in SeqsUpTo(Elems, MaxLen) }

Values == Scalars \cup NestedObjects \cup Arrays

\* Top-level objects: key "k" holds any value, key "x" a number.
TopMaps ==
    { m \in UNION { [D -> Values] : D \in SUBSET Keys } :
        "x" \in DOMAIN m => m["x"] \in {Num("1"), Num("2")} }

\* A document is JSON text.  encoding/json is a library: its parser is
\* modelled by its contract, a well-formed text denoting an object decodes to
\* that object, a malformed text is refused before anything is stored.
WellFormed(m) == [syntax |-> "ok", root |-> m]
Malformed == [syntax |-> "malformed", root |-> EmptyMap]
Docs == { WellFormed(m) : m \in TopMaps } \cup {Malformed}

\* json.Unmarshal([]byte(doc), new(map[string]interface{})): the map the
\* pointer holds afterwards (nil, i.e. empty, when Unmarshal failed) and
\* whether Unmarshal returned an error.
Unmarshal(doc) ==
    IF doc.syntax = "ok"
    THEN [m |-> doc.root, failed |-> FALSE]
    ELSE [m |-> EmptyMap, failed |-> TRUE]

-----------------------------------------------------------------------------
(* The comparator *)

\* x == y on two interface{} values: Go compares the dynamic types first and
\* panics when they are identical and not comparable (maps, slices).
InterfaceEquals(x, y) ==
    IF x.T # y.T THEN "false"
    ELSE IF x.T \in {TMap, TSlice} THEN "panic"
    ELSE IF x = y THEN "true" ELSE "false"

RECURSIVE jsonStringMatches(_, _, _)
RECURSIVE RangeKeys(_, _, _, _)
RECURSIVE CheckKey(_, _, _, _)
RECURSIVE RangeItems(_, _, _, _)
RECURSIVE RangeOtherItems(_, _, _, _, _)

\* The inner loop over otherItems for one item (model.go 134-155).  The
\* `break` statements leave the switch only, so every otherItem is visited.
\* Yields the outcomes "found", "notfound", "panic".
RangeOtherItems(item, otherItems, mustBeEqual, i, found) ==
    IF i > Len(otherItems)
    THEN {IF found THEN "found" ELSE "notfound"}
    ELSE LET otherItem == otherItems[i] IN
         IF item.T # otherItem.T
         THEN RangeOtherItems(item, otherItems, mustBeEqual, i + 1, found)
         ELSE IF item.T = TMap
         THEN LET r == jsonStringMatches(item.m, otherItem.m, mustBeEqual) IN
              (IF "panic" \in r THEN {"panic"} ELSE {})
              \cup (IF "true" \in r
                    THEN RangeOtherItems(item, otherItems, mustBeEqual, i + 1, TRUE)
                    ELSE {})
              \cup (IF "false" \in r
                    THEN RangeOtherItems(item, otherItems, mustBeEqual, i + 1, found)
                    ELSE {})
         ELSE LET e == InterfaceEquals(item, otherItem) IN
              IF e = "panic" THEN {"panic"}
              ELSE RangeOtherItems(item, otherItems, mustBeEqual, i + 1,
                                   found \/ e = "true")

\* The outer loop over items, from index i on (model.go 133-159).  Yields
\* "next" (the loop ended, `continue`), "false" or "panic".
RangeItems(items, otherItems, mustBeEqual, i) ==
    IF i > Len(items)
    THEN {"next"}
    ELSE LET f == RangeOtherItems(items[i], otherItems, mustBeEqual, 1, FALSE) IN
         (IF "panic" \in f THEN {"panic"} ELSE {})
         \cup (IF "notfound" \in f THEN {"false"} ELSE {})
         \cup (IF "found" \in f
               THEN RangeItems(items, otherItems, mustBeEqual, i + 1)
               ELSE {})

\* Line 162, `if value != otherValue { return false }`.
CompareValues(value, otherValue) ==
    LET e == InterfaceEquals(value, otherValue) IN
    IF e = "true" THEN {"next"} ELSE {e}

\* One iteration of the loop over jsonMap (model.go 111-164).  Yields "next"
\* (go on with the next key), "false" or "panic".
CheckKey(jsonMap, otherJsonMap, mustBeEqual, key) ==
    IF key \notin DOMAIN otherJsonMap
    THEN {"false"}
    ELSE LET value == jsonMap[key]
             otherValue == otherJsonMap[key]
         IN
         IF value.T # otherValue.T
         THEN {"false"}
         ELSE IF value.T = TMap
         THEN \* the case ends without `continue`: line 162 runs after it
              LET r == jsonStringMatches(value.m, otherValue.m, mustBeEqual) IN
              (r \ {"true"})
              \cup (IF "true" \in r THEN CompareValues(value, otherValue) ELSE {})
         ELSE IF value.T = TSlice
         THEN IF Len(value.s) # Len(otherValue.s)
              THEN {"false"}
              ELSE RangeItems(value.s, otherValue.s, mustBeEqual, 1)
         ELSE CompareValues(value, otherValue)

\* The loop over jsonMap with the keys `remaining` still to visit, in any
\* order (model.go 110-166).
RangeKeys(jsonMap, otherJsonMap, mustBeEqual, remaining) ==
    IF remaining = {}
    THEN {"true"}
    ELSE UNION { LET r == CheckKey(jsonMap, otherJsonMap, mustBeEqual, key) IN
                 (r \ {"next"})
                 \cup (IF "next" \in r
                       THEN RangeKeys(jsonMap, otherJsonMap, mustBeEqual,
                                      remaining \ {key})
                       ELSE {})
                 : key \in remaining }

\* A comparator that applies the field-count gate in both modes.
jsonStringMatchesGateAlways(jsonMap, otherJsonMap, mustBeEqual) ==
    IF Cardinality(DOMAIN jsonMap) # Cardinality(DOMAIN otherJsonMap)
    THEN {"false"}
    ELSE RangeKeys(jsonMap, otherJsonMap, mustBeEqual, DOMAIN jsonMap)

\* The outcomes jsonStringMatches can produce: "true", "false", "panic".
jsonStringMatches(jsonMap, otherJsonMap, mustBeEqual) ==
    IF mustBeEqual /\ Cardinality(DOMAIN jsonMap) # Cardinality(DOMAIN otherJsonMap)
    THEN {"false"}
    ELSE RangeKeys(jsonMap, otherJsonMap, mustBeEqual, DOMAIN jsonMap)

\* Matches with its two maps handed over in the wrong order.
MatchesSwapped(doc, other) ==
    jsonStringMatches(Unmarshal(other).m, Unmarshal(doc).m, FALSE)

\* j.Matches(other): the errors of json.Unmarshal are dropped.
Matches(doc, other) ==
    jsonStringMatches(Unmarshal(doc).m, Unmarshal(other).m, FALSE)

\* j.Equals(other).
Equals(doc, other) ==
    jsonStringMatches(Unmarshal(doc).m, Unmarshal(other).m, TRUE)

-----------------------------------------------------------------------------
(* Spec: the comparator applied to a pair of documents *)

Idle ==
    /\ data = <<>> /\ j = <<>> /\ out = <<>> /\ err = "nil"
    /\ store = {} /\ request = [kind |-> "none"]
    /\ responses = <<>> /\ storeCalls = <<>>

Init ==
    /\ pattern \in Docs
    /\ target \in Docs
    /\ op = "none"
    /\ verdict = "none"
    /\ Idle

CallMatches ==
    /\ \E r \in Matches(pattern, target) : verdict' = r
    /\ op' = "Matches"
    /\ UNCHANGED <<pattern, target, data, j, out, err,
                   store, request, responses, storeCalls>>

CallEquals ==
    /\ \E r \in Equals(pattern, target) : verdict' = r
    /\ op' = "Equals"
    /\ UNCHANGED <<pattern, target, data, j, out, err,
                   store, request, responses, storeCalls>>

Next == CallMatches \/ CallEquals

Spec == Init /\ [][Next]_vars

-----------------------------------------------------------------------------
(* SpecJson: JSON text through UnmarshalJSON and MarshalJSON *)

Quote == "\""
Chars == {"{", "}", "1", " ", Quote}
Texts == SeqsUpTo(Chars, MaxText)

\* The state of encoding/json's scanner after character c, over the texts
\* this alphabet can spell: numbers, strings, the empty object, whitespace.
ScanStep(state, c) ==
    CASE state = "begin" ->
           IF c = " " THEN "begin"
           ELSE IF c = "1" THEN "number"
           ELSE IF c = Quote THEN "string"
           ELSE IF c = "{" THEN "object"
           ELSE "error"
      [] state = "number" ->
           IF c = "1" THEN "number" ELSE IF c = " " THEN "end" ELSE "error"
      [] state = "string" ->
           IF c = Quote THEN "end" ELSE "string"
      [] state = "object" ->
           IF c = " " THEN "object" ELSE IF c = "}" THEN "end" ELSE "error"
      [] state = "end" ->
           IF c = " " THEN "end" ELSE "error"
      [] OTHER -> "error"

RECURSIVE CompactFrom(_, _, _, _)
\* json.Compact's loop: whitespace outside a string is dropped, every other
\* character is copied; on a scan error or an incomplete document the buffer
\* is truncated to what it held before, here nothing.
CompactFrom(text, i, state, buffer) ==
    IF i > Len(text)
    THEN IF state \in {"number", "end"}
         THEN [buffer |-> buffer, failed |-> FALSE]
         ELSE [buffer |-> <<>>, failed |-> TRUE]
    ELSE LET c == text[i]
             next == ScanStep(state, c)
         IN
         IF next = "error"
         THEN [buffer |-> <<>>, failed |-> TRUE]
         ELSE CompactFrom(text, i + 1, next,
                          IF c = " " /\ state # "string"
                          THEN buffer
                          ELSE Append(buffer, c))

Compact(text) == CompactFrom(text, 1, "begin", <<>>)

\* (*JsonString).UnmarshalJSON: the error of json.Compact is logged only and
\* the JsonString becomes what the buffer holds.
UnmarshalJSON(text) == Compact(text).buffer

\* A MarshalJSON that returns the text as it is.
MarshalJSONRaw(val) == val

\* (*JsonString).MarshalJSON: the bytes it returns (its error is always nil).
MarshalJSON(val) == IF val = <<>> THEN <<"{", "}">> ELSE val

NoDocs ==
    /\ pattern = Malformed
    /\ target = Malformed

InitJson ==
    /\ NoDocs
    /\ op = "none"
    /\ verdict = "none"
    /\ Idle

CallUnmarshalJSON ==
    /\ \E text \in Texts :
         /\ data' = text
         /\ j' = UnmarshalJSON(text)
    /\ op' = "UnmarshalJSON"
    /\ UNCHANGED <<pattern, target, verdict, out, err,
                   store, request, responses, storeCalls>>

CallMarshalJSON ==
    /\ out' = MarshalJSON(j)
    /\ err' = "nil"
    /\ op' = "MarshalJSON"
    /\ UNCHANGED <<pattern, target, verdict, data, j,
                   store, request, responses, storeCalls>>

NextJson == CallUnmarshalJSON \/ CallMarshalJSON

SpecJson == InitJson /\ [][NextJson]_vars

-----------------------------------------------------------------------------
(* SpecStubs: the handlers of StubsController *)

SupportedMethods == {"M1", "M2"}
emptyString == ""
Methods == SupportedMethods \cup {"U"}
Contents == {"c1"}

StatusOK == 200
StatusBadRequest == 400
StatusNotFound == 404
StatusConflict == 409
StatusInternalServerError == 500

\* A stub, as far as the store tells stubs apart.
Stubs == [FullMethod : Methods, Content : Contents]

\* A request body: no bytes, bytes that do not decode to a Stub, or a stub.
Bodies ==
    { [form |-> "empty", FullMethod |-> "", Content |-> ""],
      [form |-> "undecodable", FullMethod |-> "", Content |-> ""] }
    \cup { [form |-> "stub", FullMethod |-> s.FullMethod, Content |-> s.Content] :
             s \in Stubs }

\* A request: the handler it is routed to, the `method` query parameter, the
\* body, whether the validators accept the stub, and whether the
\* collaborator the handler calls last (the store, the response writer)
\* fails.
Requests(handler) ==
    [handler : {handler},
     method : Methods \cup {emptyString},
     body : Bodies,
     valid : BOOLEAN,
     fails : BOOLEAN]

isMethodSupported(method) == method \in SupportedMethods

\* readStubFromRequestBody: nil without error for an empty body.
readStubFromRequestBody(body) ==
    IF body.form = "empty" THEN [stub |-> "nil", failed |-> FALSE]
    ELSE IF body.form = "undecodable" THEN [stub |-> "nil", failed |-> TRUE]
    ELSE [stub |-> "stub", failed |-> FALSE]

StubOf(body) == [FullMethod |-> body.FullMethod, Content |-> body.Content]

\* StubsStore, an interface implemented outside these sources.
StoreExists(s, stub) == stub \in s
StoreAdd(s, stub) == s \cup {stub}
StoreDelete(s, stub) == s \ {stub}
StoreDeleteAllForMethod(s, method) == { x \in s : x.FullMethod # method }
StoreDeleteAll(s) == {}

\* What a handler leaves behind: the responses written, the store calls
\* made, the store, and whether it returned or panicked.
Result(w, calls, s, how) ==
    [responses |-> w, storeCalls |-> calls, store |-> s, verdict |-> how]

getStubsHandler(s, req) ==
    IF req.method # emptyString /\ ~isMethodSupported(req.method)
    THEN Result(<<StatusBadRequest>>, <<>>, s, "returned")
    ELSE IF req.fails
    THEN Result(<<StatusInternalServerError>>, <<>>, s, "returned")
    ELSE Result(<<StatusOK>>, <<>>, s, "returned")

addStubsHandler(s, req) ==
    LET read == readStubFromRequestBody(req.body)
        stub == StubOf(req.body)
    IN
    IF read.failed
    THEN Result(<<StatusBadRequest>>, <<>>, s, "returned")
    ELSE IF read.stub = "nil"
    THEN Result(<<>>, <<>>, s, "panic")   \* s.FullMethod on a nil *Stub
    ELSE IF ~isMethodSupported(stub.FullMethod)
    THEN Result(<<StatusBadRequest>>, <<>>, s, "returned")
    ELSE IF ~req.valid
    THEN Result(<<StatusBadRequest>>, <<>>, s, "returned")
    ELSE IF StoreExists(s, stub)
    THEN Result(<<StatusConflict>>, <<>>, s, "returned")
    ELSE IF req.fails
    THEN Result(<<StatusInternalServerError>>, <<"Add">>, s, "returned")
    ELSE Result(<<StatusOK>>, <<"Add">>, StoreAdd(s, stub), "returned")

updateStubsHandler(s, req) ==
    LET read == readStubFromRequestBody(req.body)
        stub == StubOf(req.body)
    IN
    IF read.failed
    THEN Result(<<StatusBadRequest>>, <<>>, s, "returned")
    ELSE IF read.stub = "nil"
    THEN Result(<<>>, <<>>, s, "panic")   \* stub.FullMethod on a nil *Stub
    ELSE IF ~isMethodSupported(stub.FullMethod)
    THEN Result(<<StatusBadRequest>>, <<>>, s, "returned")
    ELSE IF ~StoreExists(s, stub)
    THEN Result(<<StatusNotFound>>, <<>>, s, "returned")
    ELSE IF req.fails
    THEN Result(<<StatusInternalServerError>>, <<"Update">>, s, "returned")
    ELSE Result(<<StatusOK>>, <<"Update">>, s, "returned")

deleteStubsHandler(s, req) ==
    LET \* lines 149-152: the error response is written, the handler goes on
        w0 == IF req.method # emptyString /\ ~isMethodSupported(req.method)
              THEN <<StatusBadRequest>>
              ELSE <<>>
        read == readStubFromRequestBody(req.body)
        stub == StubOf(req.body)
    IN
    IF read.failed
    THEN Result(Append(w0, StatusBadRequest), <<>>, s, "returned")
    ELSE IF req.method # emptyString
    THEN Result(Append(w0, StatusOK), <<"DeleteAllForMethod">>,
                StoreDeleteAllForMethod(s, req.method), "returned")
    ELSE IF read.stub # "nil"
    THEN IF ~isMethodSupported(stub.FullMethod)
         THEN Result(Append(w0, StatusBadRequest), <<>>, s, "returned")
         ELSE IF ~StoreExists(s, stub)
         THEN Result(Append(w0, StatusNotFound), <<>>, s, "returned")
         ELSE IF req.fails
         THEN \* lines 176-179: no return after the error response
              Result(w0 \o <<StatusInternalServerError, StatusOK>>,
                     <<"Delete">>, s, "returned")
         ELSE Result(Append(w0, StatusOK), <<"Delete">>,
                     StoreDelete(s, stub), "returned")
    ELSE Result(Append(w0, StatusOK), <<"DeleteAll">>, StoreDeleteAll(s),
                "returned")

InitStubs ==
    /\ NoDocs
    /\ op = "none"
    /\ verdict = "none"
    /\ Idle

Handle(handler, res, req) ==
    /\ request' = req
    /\ op' = handler
    /\ responses' = res.responses
    /\ storeCalls' = res.storeCalls
    /\ store' = res.store
    /\ verdict' = res.verdict
    /\ UNCHANGED <<pattern, target, data, j, out, err>>

GetStubs ==
    \E req \in Requests("getStubs") :
        Handle("getStubs", getStubsHandler(store, req), req)

AddStubs ==
    \E req \in Requests("addStubs") :
        Handle("addStubs", addStubsHandler(store, req), req)

UpdateStubs ==
    \E req \in Requests("updateStubs") :
        Handle("updateStubs", updateStubsHandler(store, req), req)

DeleteStubs ==
    \E req \in Requests("deleteStubs") :
        Handle("deleteStubs", deleteStubsHandler(store, req), req)

NextStubs == GetStubs \/ AddStubs \/ UpdateStubs \/ DeleteStubs

SpecStubs == InitStubs /\ [][NextStubs]_vars

-----------------------------------------------------------------------------
(* Properties of the comparator (Spec) *)

BothWellFormed == pattern.syntax = "ok" /\ target.syntax = "ok"

Range(s) == { s[i] : i \in DOMAIN s }
Count(s, v) == Cardinality({ i \in DOMAIN s : s[i] = v })
SameMultiset(s, t) == \A v \in Range(s) \cup Range(t) : Count(s, v) = Count(t, v)
IsScalarArray(a) ==
    a.T = TSlice /\ \A i \in DOMAIN a.s : a.s[i].T \notin {TMap, TSlice}

\* C1: in Subset mode a pattern field holding an object, against a target
\* field of the same key holding an object, never makes Matches panic and is
\* accepted exactly when the nested pattern object matches the nested target
\* object in Subset mode; when it is the pattern's only field, that is the
\* verdict of Matches.
NestedObjectSubsetMatch ==
    (op = "Matches" /\ BothWellFormed) =>
        \A key \in DOMAIN pattern.root :
            ( /\ pattern.root[key].T = TMap
              /\ key \in DOMAIN target.root
              /\ target.root[key].T = TMap ) =>
            LET field == CheckKey(pattern.root, target.root, FALSE, key)
                nested == jsonStringMatches(pattern.root[key].m,
                                            target.root[key].m, FALSE)
            IN /\ "panic" \notin field
               /\ ("next" \in field) <=> ("true" \in nested)
               /\ DOMAIN pattern.root = {key} =>
                      verdict = (IF "true" \in nested THEN "true" ELSE "false")

\* C2: when the text of either operand is not valid JSON, Matches and Equals
\* end in a parse error, which is neither the verdict true nor the verdict
\* false.
MalformedOperandIsParseError ==
    (op \in {"Matches", "Equals"}
        /\ (pattern.syntax # "ok" \/ target.syntax # "ok")) =>
        verdict = "parse error"

\* C3: Equals is reflexive: a.Equals(a) completes and returns true for every
\* well-formed object a.
EqualsReflexive ==
    (op = "Equals" /\ BothWellFormed /\ target = pattern) => verdict = "true"

\* C4: arrays of scalars are compared as multisets: Matches and Equals accept
\* only when every array-of-scalars field of the pattern holds each value as
\* many times as the target's array under the same key.
ScalarArraysCompareAsMultisets ==
    (op \in {"Matches", "Equals"} /\ BothWellFormed /\ verdict = "true") =>
        \A key \in DOMAIN pattern.root \cap DOMAIN target.root :
            (IsScalarArray(pattern.root[key]) /\ IsScalarArray(target.root[key]))
                => SameMultiset(pattern.root[key].s, target.root[key].s)

\* C5: array matching is order-independent: Matches of {"k": arr} against
\* {"k": perm(arr)} completes and returns true for every array arr, whatever
\* its elements, and every permutation of it.
ArrayOrderIndependent ==
    ( /\ op = "Matches" /\ BothWellFormed
      /\ DOMAIN pattern.root = {"k"} /\ DOMAIN target.root = {"k"}
      /\ pattern.root["k"].T = TSlice /\ target.root["k"].T = TSlice
      /\ Len(pattern.root["k"].s) = Len(target.root["k"].s)
      /\ SameMultiset(pattern.root["k"].s, target.root["k"].s) )
    => verdict = "true"

\* The targets that are `doc` plus one top-level key that neither doc nor
\* `than` has.
ExtraValues == Scalars \cup {Obj(EmptyMap), Arr(<<Num("1")>>)}
WithExtraField(doc, than) ==
    { WellFormed([k \in DOMAIN doc.root \cup {key} |->
                     IF k = key THEN v ELSE doc.root[k]]) :
        key \in Keys \ (DOMAIN doc.root \cup DOMAIN than.root),
        v \in ExtraValues }

\* C6: a top-level key added to the target that the pattern does not have
\* leaves the result of Matches as it was, and turns an Equals that was true
\* into false.
ExtraFieldTolerance ==
    BothWellFormed =>
        \A t2 \in WithExtraField(target, pattern) :
            /\ op = "Matches" =>
                   /\ Matches(pattern, t2) = Matches(pattern, target)
                   /\ verdict \in Matches(pattern, t2)
            /\ (op = "Equals" /\ verdict = "true") =>
                   Equals(pattern, t2) = {"false"}

\* Matches returned true on a pattern with an array field, and the target has
\* room for one more key.
ExtraFieldWitness ==
    /\ op = "Matches" /\ verdict = "true" /\ BothWellFormed
    /\ DOMAIN pattern.root = {"k"} /\ DOMAIN target.root = {"k"}
    /\ pattern.root["k"].T = TSlice /\ Len(pattern.root["k"].s) = MaxLen
    /\ WithExtraField(target, pattern) # {}

\* C7: whenever p.Equals(t) returns true, p.Matches(t) completes and returns
\* true.
EqualsImpliesMatches ==
    (op = "Equals" /\ verdict = "true") => Matches(pattern, target) = {"true"}

\* Equals returned true on two different documents whose arrays hold an
\* object.
EqualsImpliesMatchesWitness ==
    /\ op = "Equals" /\ verdict = "true" /\ BothWellFormed
    /\ pattern # target
    /\ DOMAIN pattern.root = Keys
    /\ pattern.root["k"].T = TSlice
    /\ \E i \in DOMAIN pattern.root["k"].s : pattern.root["k"].s[i].T = TMap

\* C9: Equals is symmetric: the result of a.Equals(b) is a result of
\* b.Equals(a).
EqualsSymmetric ==
    (op = "Equals" /\ BothWellFormed) => verdict \in Equals(target, pattern)

-----------------------------------------------------------------------------
(* Properties of the JSON text wrapper (SpecJson) *)

\* C8: MarshalJSON never returns an error, never returns empty output, and
\* returns exactly {} when the JsonString is empty, as it is after
\* UnmarshalJSON of an empty or rejected document.
MarshalNeverEmpty ==
    op = "MarshalJSON" =>
        /\ err = "nil"
        /\ out # <<>>
        /\ j = <<>> => out = <<"{", "}">>
        /\ j # <<>> => out = j

\* MarshalJSON ran on the JsonString that UnmarshalJSON made of a rejected,
\* non-empty document.
MarshalRejectedWitness ==
    /\ op = "MarshalJSON"
    /\ data # <<>> /\ Compact(data).failed
    /\ j = <<>>
    /\ out = <<"{", "}">>

-----------------------------------------------------------------------------
(* Properties of the controller (SpecStubs) *)

\* C10: when a delete request fails a check (an unsupported `method`
\* parameter, or an error from the store's Delete), deleteStubsHandler writes
\* the error response and nothing after it, and for an unsupported method it
\* calls no deleting operation of the store.
DeleteFailureWritesOneError ==
    op = "deleteStubs" =>
        LET unsupported == /\ request.method # emptyString
                           /\ ~isMethodSupported(request.method)
            deleteFailed == storeCalls = <<"Delete">> /\ request.fails
        IN /\ (unsupported \/ deleteFailed) =>
                  /\ Len(responses) = 1
                  /\ responses[1] >= StatusBadRequest
           /\ unsupported => storeCalls = <<>>

=============================================================================
